---- MODULE Spec2Model ----
(***************************************************************************)
(* Device session layer of goadb: dialDevice, getSyncConn, the device      *)
(* operations built on them (RunCommand, Remount, Stat, ListDirEntries,    *)
(* OpenRead, OpenWrite) and PushWithProgress with its cancellation watcher.*)
(*                                                                         *)
(* Strings are sequences of tokens: a literal of the source is one token,  *)
(* a caller-supplied string is a sequence of one-character tokens, and     *)
(* fmt.Sprintf / strings.Join are concatenation.                           *)
(* An error value is the sequence of its layers, outermost first: the      *)
(* cause of an error is its Tail, nil is the empty sequence.               *)
(***************************************************************************)
EXTENDS Integers, Sequences, FiniteSets, TLC

\* Number of operations called on the device during one behaviour.
MaxCalls == 2
\* Longest byte stream a shell peer delivers before closing.
MaxBody == 2
\* Most chunks a local source yields before its end.
MaxChunks == 2

VARIABLES
    descriptor,   \* Device.descriptor, fixed at construction
    op,           \* the operation in progress, "none" between calls
    pc,           \* position inside the operation
    in,           \* the arguments of the call
    calls,        \* number of operations called so far
    conns,        \* every connection server.Dial has produced, by id
    conn,         \* the connection held by the running call (0: none)
    dials,        \* server.Dial calls made by the running call
    ret,          \* what the call returned, meaningful when pc = "done"
    localFile,    \* PushWithProgress: the local source handle
    writer,       \* PushWithProgress: the destination write stream
    ctx,          \* PushWithProgress: the cancellation signal
    watcher,      \* PushWithProgress: the goroutine waiting on ctx.Done()
    srcLeft,      \* chunks the local source still holds
    copied,       \* chunks written to the destination by io.Copy
    copyEnd,      \* how the copy loop ended
    pending,      \* the original failure the running call met (nil: none)
    cancelInCopy, \* the signal fired while the copy loop was running
    progress      \* the progress bar of the running copy and the events its observer got

vars == <<descriptor, op, pc, in, calls, conns, conn, dials, ret, localFile,
          writer, ctx, watcher, srcLeft, copied, copyEnd, pending, cancelInCopy,
          progress>>

pushVars == <<localFile, writer, ctx, watcher, srcLeft, copied, copyEnd, cancelInCopy,
              progress>>

-----------------------------------------------------------------------------
(* Errors *)

NoErr == << >>

\* An *errors.Err with no cause.
NewErr(code, msg) == << [type |-> "Err", code |-> code, msg |-> msg, details |-> << >>] >>

\* An *os.PathError carrying a syscall.Errno.
PathError(errno) ==
    << [type |-> "PathError", code |-> errno, msg |-> <<"os">>, details |-> << >>] >>

\* errors.WrapErrf: nil stays nil, otherwise a new *Err with the cause's code.
WrapErrf(err, msg) ==
    IF err = NoErr THEN NoErr
    ELSE << [type |-> "Err", code |-> err[1].code, msg |-> msg, details |-> << >>] >> \o err

\* (*Err).Error(): the code and the message of the outermost layer.
ErrorText(err) == <<err[1].code, ": ">> \o err[1].msg

\* strings.Contains(s, substr) for a substr that is one token of s.
Contains(s, substr) == \E i \in 1..Len(s) : s[i] = substr

-----------------------------------------------------------------------------
(* Device descriptor *)

Serials == { <<"A">>, <<"B", "1">> }

AnyDevice == [descriptorType |-> "DeviceAny", serial |-> << >>, transportId |-> << >>]
AnyUsbDevice == [descriptorType |-> "DeviceUsb", serial |-> << >>, transportId |-> << >>]
AnyLocalDevice == [descriptorType |-> "DeviceLocal", serial |-> << >>, transportId |-> << >>]
DeviceWithSerial(serial) ==
    [descriptorType |-> "DeviceSerial", serial |-> serial, transportId |-> << >>]
DeviceWithTransportId(tid) ==
    [descriptorType |-> "DeviceTransportId", serial |-> << >>, transportId |-> tid]

Descriptors ==
    {AnyDevice, AnyUsbDevice, AnyLocalDevice}
        \cup {DeviceWithSerial(s) : s \in Serials}
        \cup {DeviceWithTransportId(s) : s \in Serials}

getTransportDescriptor(d) ==
    CASE d.descriptorType = "DeviceAny" -> <<"transport-any">>
      [] d.descriptorType = "DeviceUsb" -> <<"transport-usb">>
      [] d.descriptorType = "DeviceLocal" -> <<"transport-local">>
      [] d.descriptorType = "DeviceSerial" -> <<"transport:">> \o d.serial
      [] d.descriptorType = "DeviceTransportId" -> <<"transport-id:">> \o d.transportId

\* DeviceDescriptor.String(): the type name, with the serial for DeviceSerial.
String(d) ==
    IF d.descriptorType = "DeviceSerial"
    THEN <<d.descriptorType, "[">> \o d.serial \o <<"]">>
    ELSE <<d.descriptorType>>

getHostPrefix_serialForTransportId(d) ==
    CASE d.descriptorType = "DeviceAny" -> <<"host">>
      [] d.descriptorType = "DeviceUsb" -> <<"host-usb">>
      [] d.descriptorType = "DeviceLocal" -> <<"host-local">>
      [] d.descriptorType = "DeviceSerial" -> <<"host-serial:">> \o d.serial
      [] d.descriptorType = "DeviceTransportId" -> <<"host-serial:">> \o d.transportId

\* getHostPrefix: fmt.Sprintf("host-serial:%s", d.serial), fmt.Sprintf("host-transport-id:%s", d.transportId)
getHostPrefix(d) ==
    CASE d.descriptorType = "DeviceAny" -> <<"host">>
      [] d.descriptorType = "DeviceUsb" -> <<"host-usb">>
      [] d.descriptorType = "DeviceLocal" -> <<"host-local">>
      [] d.descriptorType = "DeviceSerial" -> <<"host-serial:">> \o d.serial
      [] d.descriptorType = "DeviceTransportId" -> <<"host-transport-id:">> \o d.transportId

-----------------------------------------------------------------------------
(* Device state *)

\* The two definitions of parseDeviceState that src/device_state.go holds.
ParseVariants == {"zero-value", "default-disconnected"}

\* deviceStateStrings
deviceStateStrings(str) ==
    CASE str = << >> -> "StateDisconnected"
      [] str = <<"offline">> -> "StateOffline"
      [] str = <<"device">> -> "StateOnline"
      [] OTHER -> "StateInvalid"

\* The keys of deviceStateStrings.
KnownState(str) == str \in { << >>, <<"offline">>, <<"device">> }

\* parseDeviceState: the first definition returns the map's zero value for a key that
\* is not in the map, the second returns StateDisconnected; both return a nil error.
parseDeviceState(variant, str) ==
    IF KnownState(str) THEN deviceStateStrings(str)
    ELSE IF variant = "zero-value" THEN "StateInvalid"
    ELSE "StateDisconnected"

\* The descriptor types the switch statements have a case for.
DescriptorTypes == {"DeviceAny", "DeviceUsb", "DeviceLocal", "DeviceSerial", "DeviceTransportId"}

-----------------------------------------------------------------------------
(* wrapClientError *)

\* reflect.TypeOf(client) of a *Device.
clientType == "*adb.Device"

\* wrapClientError panics on an error that is not a *errors.Err.
wrapClientErrorPanics(err) == err # NoErr /\ err[1].type # "Err"

\* fmt.Sprintf("error performing %s on %s", fmt.Sprintf(operation, args...), clientType)
wrapClientError_message(operation, client) ==
    <<"error performing ">> \o operation \o <<" on ", clientType>>

wrapClientError_noCause(err, operation) ==
    IF err = NoErr THEN NoErr
    ELSE << [type |-> "Err", code |-> err[1].code,
             msg |-> wrapClientError_message(operation, descriptor),
             details |-> <<descriptor>>] >>

\* wrapClientError on an error it does not panic on: Code: err.Code, Cause: err,
\* Details: client (the *Device, known by its descriptor).
wrapClientError(err, operation) ==
    IF err = NoErr THEN NoErr
    ELSE << [type |-> "Err", code |-> err[1].code,
             msg |-> wrapClientError_message(operation, descriptor),
             details |-> <<descriptor>>] >> \o err

-----------------------------------------------------------------------------
(* prepareCommandLine *)

Whitespace == {" ", "\t", "\n"}

isBlank(str) == \A i \in 1..Len(str) : str[i] \in Whitespace

ContainsQuote(arg) == \E i \in 1..Len(arg) : arg[i] = "\""

RECURSIVE Join(_)
\* strings.Join(args, " ")
Join(args) ==
    IF args = << >> THEN << >>
    ELSE IF Len(args) = 1 THEN args[1]
    ELSE args[1] \o <<" ">> \o Join(Tail(args))

prepareCommandLineErr_whitespaceArg(cmd, args) ==
    IF isBlank(cmd) THEN NewErr("AssertionError", <<"command cannot be empty">>)
    ELSE IF \E i \in 1..Len(args) : ContainsQuote(args[i]) \/ Contains(args[i], " ")
         THEN NewErr("ParseError", <<"arg contains an invalid double quote">>)
         ELSE NoErr

\* prepareCommandLine, the error it returns: isBlank(cmd), then a double quote in an
\* argument; the containsWhitespace branch is empty.
prepareCommandLineErr(cmd, args) ==
    IF isBlank(cmd) THEN NewErr("AssertionError", <<"command cannot be empty">>)
    ELSE IF \E i \in 1..Len(args) : ContainsQuote(args[i])
         THEN NewErr("ParseError", <<"arg contains an invalid double quote">>)
         ELSE NoErr

RECURSIVE JoinQuoted(_)
JoinQuoted(args) ==
    IF args = << >> THEN << >>
    ELSE LET a == IF Contains(args[1], " ") THEN <<"\"">> \o args[1] \o <<"\"">> ELSE args[1]
         IN IF Len(args) = 1 THEN a ELSE a \o <<" ">> \o JoinQuoted(Tail(args))

prepareCommandLine_quoted(cmd, args) ==
    IF prepareCommandLineErr(cmd, args) # NoErr THEN << >>
    ELSE IF Len(args) > 0 THEN cmd \o <<" ">> \o JoinQuoted(args)
    ELSE cmd

\* prepareCommandLine, the string it returns:
\* cmd = fmt.Sprintf("%s %s", cmd, strings.Join(args, " ")) when there are arguments.
prepareCommandLine(cmd, args) ==
    IF prepareCommandLineErr(cmd, args) # NoErr THEN << >>
    ELSE IF Len(args) > 0 THEN cmd \o <<" ">> \o Join(args)
    ELSE cmd

Cmds == { <<"l", "s">>, << >>, <<" ">> }
ArgLists == { << >>, << <<"-", "l">> >>, << <<"a", "\"">> >>, << <<"-", "l">>, <<"a", " ", "b">> >> }

-----------------------------------------------------------------------------
(* Connections, as the wire library provides them *)

Ev(e, msg) == [e |-> e, msg |-> msg]

NewConn(call) == [open |-> TRUE, closes |-> 0, trace |-> << >>, call |-> call]

\* Conn.Close: safe to call more than once.
CloseConn(cs, id) ==
    [cs EXCEPT ![id].open = FALSE, ![id].closes = @ + 1,
               ![id].trace = Append(@, Ev("close", << >>))]

\* A connection of an earlier call: what was exchanged on it is no longer recorded.
Archived(c) == [c EXCEPT !.trace = << >>]

Log(cs, id, e, msg) == [cs EXCEPT ![id].trace = Append(@, Ev(e, msg))]

\* Outcomes of reading a status line.
StatusOutcomes == {"OKAY", "FAIL", "ioerr"}

StatusErr(outcome, req) ==
    CASE outcome = "OKAY" -> NoErr
      [] outcome = "FAIL" -> NewErr("AdbError", <<"server error for ">> \o req)
      [] outcome = "ioerr" -> NewErr("ConnectionResetError", <<"error reading status for ">> \o req)

SendErr(req) == NewErr("NetworkError", <<"error sending ">> \o req)

DialErr == NewErr("ServerNotAvailable", <<"error dialing">>)

\* Byte streams a peer may deliver; a leading "0" lets a stream look length-prefixed.
Bytes == {"h", "0"}
Bodies == UNION { [1..n -> Bytes] : n \in 0..MaxBody }

\* Conn.ReadUntilEof: every byte delivered before the peer closed.
ReadUntilEof(stream) == stream

\* A length-prefixed read: the first byte is taken as the header and dropped.
ReadLengthPrefixed(stream) == IF stream = << >> THEN << >> ELSE Tail(stream)

-----------------------------------------------------------------------------
(* Requests *)

DialOps == {"RunCommand", "Remount"}
\* The two push operations go through OpenWrite.
PushOps == {"PushWithProgress", "PushPath"}
SyncOps == {"Stat", "ListDirEntries", "OpenRead", "OpenWrite"} \cup PushOps
AttrOps == {"product", "Serial", "DevicePath", "State", "DeviceInfo"}
Ops == DialOps \cup SyncOps \cup AttrOps

\* The attribute each operation asks the server for.
attrName(o) ==
    CASE o = "product" -> "get-product"
      [] o \in {"Serial", "DeviceInfo"} -> "get-serialno"
      [] o = "DevicePath" -> "get-devpath"
      [] o = "State" -> "get-state"

attributeReq_transport(d, attr) == getTransportDescriptor(d) \o <<":", attr>>

\* getAttribute: fmt.Sprintf("%s:%s", c.descriptor.getHostPrefix(), attr)
attributeReq(d, attr) == getHostPrefix(d) \o <<":", attr>>

\* dialDevice: req := fmt.Sprintf("host:%s", c.descriptor.getTransportDescriptor())
transportReq(d) == <<"host:">> \o getTransportDescriptor(d)

syncReq == <<"sync:">>

\* RunCommand: req := fmt.Sprintf("shell:%s", cmd)
shellReq(cmd) == <<"shell:">> \o cmd

\* The operation string each public operation hands to wrapClientError.
OperationName(o) ==
    CASE o = "RunCommand" -> <<"RunCommand">>
      [] o = "Remount" -> <<"Remount">>
      [] o = "Stat" -> <<"Stat(", "path", ")">>
      [] o = "ListDirEntries" -> <<"ListDirEntries(", "path", ")">>
      [] o = "OpenRead" -> <<"OpenRead(", "path", ")">>
      [] o = "OpenWrite" -> <<"OpenWrite(", "path", ")">>
      [] o = "PushWithProgress" -> <<"PushWithProgress">>
      [] o = "PushPath" -> <<"PushWithProgress">>
      [] o = "product" -> <<"Product">>
      [] o = "Serial" -> <<"Serial">>
      [] o = "DevicePath" -> <<"DevicePath">>
      [] o = "State" -> <<"State">>
      [] o = "DeviceInfo" -> <<"DeviceInfo">>
      [] o = "GetDeviceInfo(GetSerial)" -> <<"GetDeviceInfo(GetSerial)">>
      [] o = "DeviceInfo(ListDevices)" -> <<"DeviceInfo(ListDevices)">>

NoRet == [err |-> NoErr, val |-> << >>, conn |-> 0, panicked |-> FALSE, entry |-> << >>]

NoWriter == [state |-> "none", closes |-> 0, conn |-> 0]

NoIn == [cmd |-> << >>, args |-> << >>, local |-> "none", useCtx |-> FALSE,
         n |-> 0, showProgress |-> FALSE, cb |-> FALSE, devices |-> << >>, listOk |-> TRUE]

\* No progress bar: the observer has got no event.
NoProgress == [on |-> FALSE, current |-> 0, notified |-> FALSE, last |-> 0]

Init ==
    /\ descriptor \in Descriptors
    /\ op = "none"
    /\ pc = "idle"
    /\ in = NoIn
    /\ calls = 0
    /\ conns = << >>
    /\ conn = 0
    /\ dials = 0
    /\ ret = NoRet
    /\ localFile = "none"
    /\ writer = NoWriter
    /\ ctx = "nil"
    /\ watcher = "none"
    /\ srcLeft = 0
    /\ copied = 0
    /\ copyEnd = "none"
    /\ pending = NoErr
    /\ cancelInCopy = FALSE
    /\ progress = NoProgress

-----------------------------------------------------------------------------
(* The device list of DeviceInfo *)

\* The error of a failed listing.
ListErr == NewErr("ServerNotAvailable", <<"error performing ListDevices">>)

\* A *DeviceInfo of the listing: its serial, and the USB location that tells two
\* entries with one serial apart.
Entry(serial, usb) == [Serial |-> serial, Usb |-> usb]

\* Listings deviceListFunc may report.
DeviceLists ==
    { << >>,
      << Entry(<<"offline">>, "1") >>,
      << Entry(<<"A", "B", "C", "1", "2", "3">>, "1") >>,
      << Entry(<<"offline">>, "1"), Entry(<<"A", "B", "C", "1", "2", "3">>, "2"),
         Entry(<<"A", "B", "C", "1", "2", "3">>, "3") >> }

findDevice_last(devices, serial) ==
    LET m == {i \in 1..Len(devices) : devices[i].Serial = serial}
    IN IF m = {} THEN 0 ELSE CHOOSE i \in m : \A j \in m : j <= i

\* DeviceInfo: for _, deviceInfo := range devices { if deviceInfo.Serial == serial {
\* return deviceInfo, nil } }; 0 when the loop ends without a match.
findDevice(devices, serial) ==
    LET m == {i \in 1..Len(devices) : devices[i].Serial = serial}
    IN IF m = {} THEN 0 ELSE CHOOSE i \in m : \A j \in m : i <= j

-----------------------------------------------------------------------------
(* Calls and returns *)

LocalKinds == {"stdin", "file", "missing", "dir"}

\* A public operation returns: the internal error e goes through wrapClientError
\* under each operation name of wraps (innermost first), which panics on an
\* error that is not a *errors.Err.
RECURSIVE WrapAll(_, _)
WrapAll(e, wraps) ==
    IF wraps = << >> THEN e
    ELSE WrapAll(wrapClientError(e, OperationName(wraps[1])), Tail(wraps))

\* The return with all its results: the string, the connection handed to the caller
\* and the *DeviceInfo (entry), each only with a nil error.
ReturnEntry(e, wraps, val, handed, cs, entry) ==
    /\ pc' = "done"
    /\ conns' = cs
    /\ ret' = IF wrapClientErrorPanics(e)
              THEN [err |-> NoErr, val |-> << >>, conn |-> 0, panicked |-> TRUE,
                    entry |-> << >>]
              ELSE [err |-> WrapAll(e, wraps),
                    val |-> IF e = NoErr THEN val ELSE << >>,
                    conn |-> IF e = NoErr THEN handed ELSE 0,
                    panicked |-> FALSE,
                    entry |-> IF e = NoErr THEN entry ELSE << >>]

\* The return of an operation that has no *DeviceInfo among its results.
Return(e, wraps, val, handed, cs) == ReturnEntry(e, wraps, val, handed, cs, << >>)

\* The wrappers an error of the dial / sync-entry stage passes through.
EntryWraps == IF op \in PushOps THEN <<"OpenWrite", op>> ELSE <<op>>

\* PushWithProgress, PushPath: defer localFile.Close() is registered before OpenWrite.
EntryDeferred ==
    /\ localFile' = IF op \in PushOps THEN "closed" ELSE localFile
    /\ UNCHANGED <<writer, ctx, watcher, srcLeft, copied, copyEnd, cancelInCopy, progress>>

\* The caller has taken the result of a call: the handle keeps nothing of it (the
\* Device struct has no field a call writes), the connections stay as the call left them.
CallerResumes ==
    /\ pc = "done"
    /\ calls < MaxCalls
    /\ pc' = "idle"
    /\ op' = "none"
    /\ in' = NoIn
    /\ conn' = 0
    /\ dials' = 0
    /\ ret' = NoRet
    /\ pending' = NoErr
    /\ localFile' = "none"
    /\ writer' = NoWriter
    /\ ctx' = "nil"
    /\ watcher' = "none"
    /\ srcLeft' = 0
    /\ copied' = 0
    /\ copyEnd' = "none"
    /\ cancelInCopy' = FALSE
    /\ progress' = NoProgress
    /\ conns' = [i \in DOMAIN conns |-> Archived(conns[i])]
    /\ UNCHANGED <<descriptor, calls>>

Call ==
    /\ pc = "idle"
    /\ calls < MaxCalls
    /\ \E o \in Ops, cmd \in Cmds, args \in ArgLists, local \in LocalKinds \cup {"none"},
          useCtx \in BOOLEAN, n \in 0..MaxChunks, showProgress \in BOOLEAN,
          cb \in BOOLEAN, devices \in DeviceLists, listOk \in BOOLEAN :
        /\ o # "RunCommand" => cmd = << >> /\ args = << >>
        /\ o \in PushOps <=> local # "none"
        /\ o # "PushWithProgress" => ~useCtx /\ ~showProgress /\ ~cb
        /\ o \notin PushOps => n = 0
        /\ o = "PushPath" => local # "stdin"
        /\ o # "DeviceInfo" => devices = << >> /\ listOk
        /\ ~listOk => devices = << >>
        /\ local \in {"missing", "dir"} => n = 0
        /\ op' = o
        /\ in' = [cmd |-> cmd, args |-> args, local |-> local, useCtx |-> useCtx,
                  n |-> n, showProgress |-> showProgress, cb |-> cb,
                  devices |-> devices, listOk |-> listOk]
        /\ pc' = CASE o = "RunCommand" -> "prepare"
                   [] o = "PushWithProgress" -> "push_open"
                   [] o = "PushPath" -> "pp_stat"
                   [] o \in AttrOps -> "attr"
                   [] OTHER -> "dial"
        /\ ctx' = IF useCtx THEN "live" ELSE "nil"
        /\ srcLeft' = n
    /\ calls' = calls + 1
    /\ UNCHANGED <<descriptor, conns, conn, dials, ret, pending, localFile, writer,
                   watcher, copied, copyEnd, cancelInCopy, progress>>

RunCommand_rejects_never(err) == FALSE

\* RunCommand: if err != nil { return "", wrapClientError(err, c, "RunCommand") }
RunCommand_rejects(err) == err # NoErr

\* RunCommand: cmd, err := prepareCommandLine(cmd, args...)
Prepare ==
    /\ pc = "prepare"
    /\ LET e == prepareCommandLineErr(in.cmd, in.args) IN
        IF RunCommand_rejects(e)
        THEN /\ Return(e, <<op>>, << >>, 0, conns)
             /\ pending' = e
        ELSE /\ pc' = "dial"
             /\ UNCHANGED <<ret, conns, pending>>
    /\ UNCHANGED <<descriptor, op, in, calls, conn, dials>>
    /\ UNCHANGED pushVars

-----------------------------------------------------------------------------
(* dialDevice *)

dialDevice_onFailure_leak(cs, id) == cs

\* dialDevice: conn.Close() on the two failure branches.
dialDevice_onFailure(cs, id) == CloseConn(cs, id)

\* conn, err := c.server.Dial()
ServerDial ==
    /\ pc = "dial"
    /\ dials' = dials + 1
    /\ \E ok \in BOOLEAN :
        IF ok
        THEN /\ conns' = Append(conns, NewConn(calls))
             /\ conn' = Len(conns) + 1
             /\ pc' = "dd_send"
             /\ UNCHANGED <<ret, pending>>
             /\ UNCHANGED pushVars
        ELSE /\ Return(DialErr, EntryWraps, << >>, 0, conns)
             /\ pending' = DialErr
             /\ conn' = 0
             /\ EntryDeferred
    /\ UNCHANGED <<descriptor, op, in, calls>>

\* wire.SendMessageString(conn, req)
DialSend ==
    /\ pc = "dd_send"
    /\ LET req == transportReq(descriptor) IN
       \E ok \in BOOLEAN :
        IF ok
        THEN /\ conns' = Log(conns, conn, "send", req)
             /\ pc' = "dd_status"
             /\ UNCHANGED <<ret, pending, conn>>
             /\ UNCHANGED pushVars
        ELSE LET e == WrapErrf(SendErr(req), <<"error connecting to device">>) IN
             /\ Return(e, EntryWraps, << >>, 0,
                       dialDevice_onFailure(Log(conns, conn, "send-fail", req), conn))
             /\ pending' = e
             /\ conn' = 0
             /\ EntryDeferred
    /\ UNCHANGED <<descriptor, op, in, calls, dials>>

AfterDial_skipSyncSend ==
    CASE op = "RunCommand" -> "rc_send"
      [] op = "Remount" -> "rm_roundtrip"
      [] OTHER -> "sc_status"

\* The position a caller of dialDevice continues at.
AfterDial == CASE op = "RunCommand" -> "rc_send"
               [] op = "Remount" -> "rm_roundtrip"
               [] OTHER -> "sc_send"

\* conn.ReadStatus(req)
DialStatus ==
    /\ pc = "dd_status"
    /\ LET req == transportReq(descriptor) IN
       \E outcome \in StatusOutcomes :
        LET cs == Log(conns, conn, "status", <<outcome>>) IN
        IF outcome = "OKAY"
        THEN /\ conns' = cs
             /\ pc' = AfterDial
             /\ UNCHANGED <<ret, pending, conn>>
             /\ UNCHANGED pushVars
        ELSE /\ Return(StatusErr(outcome, req), EntryWraps, << >>, 0,
                       dialDevice_onFailure(cs, conn))
             /\ pending' = StatusErr(outcome, req)
             /\ conn' = 0
             /\ EntryDeferred
    /\ UNCHANGED <<descriptor, op, in, calls, dials>>

-----------------------------------------------------------------------------
(* getSyncConn *)

\* getSyncConn: its two failure branches return without touching conn.
getSyncConn_onFailure(cs, id) == cs

\* wire.SendMessageString(conn, "sync:")
SyncSend ==
    /\ pc = "sc_send"
    /\ \E ok \in BOOLEAN :
        IF ok
        THEN /\ conns' = Log(conns, conn, "send", syncReq)
             /\ pc' = "sc_status"
             /\ UNCHANGED <<ret, pending, conn>>
             /\ UNCHANGED pushVars
        ELSE /\ Return(SendErr(syncReq), EntryWraps, << >>, 0,
                       getSyncConn_onFailure(Log(conns, conn, "send-fail", syncReq), conn))
             /\ pending' = SendErr(syncReq)
             /\ conn' = 0
             /\ EntryDeferred
    /\ UNCHANGED <<descriptor, op, in, calls, dials>>

\* conn.ReadStatus("sync"), then conn.NewSyncConn()
SyncStatus ==
    /\ pc = "sc_status"
    /\ \E outcome \in StatusOutcomes :
        LET cs == Log(conns, conn, "status", <<outcome>>) IN
        IF outcome = "OKAY"
        THEN /\ conns' = Log(cs, conn, "sync-mode", << >>)
             /\ pc' = "helper"
             /\ UNCHANGED <<ret, pending, conn>>
             /\ UNCHANGED pushVars
        ELSE /\ Return(StatusErr(outcome, <<"sync">>), EntryWraps, << >>, 0,
                       getSyncConn_onFailure(cs, conn))
             /\ pending' = StatusErr(outcome, <<"sync">>)
             /\ conn' = 0
             /\ EntryDeferred
    /\ UNCHANGED <<descriptor, op, in, calls, dials>>

-----------------------------------------------------------------------------
(* RunCommand and Remount *)

deferredConnClose_none(cs, id) == cs

\* defer conn.Close() of RunCommand, Remount and Stat.
deferredConnClose(cs, id) == CloseConn(cs, id)

shellResponse_lengthPrefixed(stream) == ReadLengthPrefixed(stream)

\* RunCommand: resp, err := conn.ReadUntilEof(); return string(resp), ...
shellResponse(stream) == ReadUntilEof(stream)

\* conn.SendMessage([]byte(req))
ShellSend ==
    /\ pc = "rc_send"
    /\ LET req == shellReq(prepareCommandLine(in.cmd, in.args)) IN
       \E ok \in BOOLEAN :
        IF ok
        THEN /\ conns' = Log(conns, conn, "send", req)
             /\ pc' = "rc_status"
             /\ UNCHANGED <<ret, pending>>
        ELSE /\ Return(SendErr(req), <<op>>, << >>, 0,
                       deferredConnClose(Log(conns, conn, "send-fail", req), conn))
             /\ pending' = SendErr(req)
    /\ UNCHANGED <<descriptor, op, in, calls, conn, dials>>
    /\ UNCHANGED pushVars

\* conn.ReadStatus(req)
ShellStatus ==
    /\ pc = "rc_status"
    /\ LET req == shellReq(prepareCommandLine(in.cmd, in.args)) IN
       \E outcome \in StatusOutcomes :
        LET cs == Log(conns, conn, "status", <<outcome>>) IN
        IF outcome = "OKAY"
        THEN /\ conns' = cs
             /\ pc' = "rc_read"
             /\ UNCHANGED <<ret, pending>>
        ELSE /\ Return(StatusErr(outcome, req), <<op>>, << >>, 0, deferredConnClose(cs, conn))
             /\ pending' = StatusErr(outcome, req)
    /\ UNCHANGED <<descriptor, op, in, calls, conn, dials>>
    /\ UNCHANGED pushVars

ReadErr == NewErr("NetworkError", <<"error reading until EOF">>)

\* resp, err := conn.ReadUntilEof(): the peer delivers body and closes, or the read fails.
ShellRead ==
    /\ pc = "rc_read"
    /\ \E body \in Bodies, ok \in BOOLEAN :
        LET e == IF ok THEN NoErr ELSE ReadErr
            cs == Log(conns, conn, IF ok THEN "eof" ELSE "read-fail", body)
        IN /\ Return(e, <<op>>, shellResponse(body), 0, deferredConnClose(cs, conn))
           /\ pending' = e
    /\ UNCHANGED <<descriptor, op, in, calls, conn, dials>>
    /\ UNCHANGED pushVars

remountReq == <<"remount">>

\* Remount: conn.RoundTripSingleResponse([]byte("remount")) under defer conn.Close().
RemountRoundTrip ==
    /\ pc = "rm_roundtrip"
    /\ \E sent \in BOOLEAN, outcome \in StatusOutcomes, body \in Bodies, ok \in BOOLEAN :
        LET e == IF ~sent THEN SendErr(remountReq)
                 ELSE IF outcome # "OKAY" THEN StatusErr(outcome, remountReq)
                 ELSE IF ~ok THEN ReadErr ELSE NoErr
            cs1 == Log(conns, conn, IF sent THEN "send" ELSE "send-fail", remountReq)
            cs2 == IF sent THEN Log(cs1, conn, "status", <<outcome>>) ELSE cs1
            cs3 == IF sent /\ outcome = "OKAY"
                   THEN Log(cs2, conn, IF ok THEN "message" ELSE "read-fail", body) ELSE cs2
        IN /\ ~sent => outcome = "OKAY" /\ ok /\ body = << >>
           /\ outcome # "OKAY" => ok /\ body = << >>
           /\ ~ok => body = << >>
           /\ Return(e, <<op>>, ReadLengthPrefixed(body), 0, deferredConnClose(cs3, conn))
           /\ pending' = e
    /\ UNCHANGED <<descriptor, op, in, calls, conn, dials>>
    /\ UNCHANGED pushVars

-----------------------------------------------------------------------------
(* getAttribute: Serial, DevicePath, product, State, DeviceInfo *)

\* Messages the server sends with a FAIL status.
ServerMsgs == { <<"device ", "unauthorized", ".">>, <<"device offline">> }

\* The error of a FAIL status: it quotes the request and the server's message.
ServerFailErr(req, serverMsg) ==
    NewErr("AdbError", <<"server error for ">> \o req \o <<" request: ">> \o serverMsg)

ReadMessageErr == NewErr("ConnectionResetError", <<"error reading message">>)

\* Message bodies the server may answer an attribute request with.
Payloads == { << >>, <<"offline">>, <<"device">>, <<"unauthorized">>,
              <<"A", "B", "C", "1", "2", "3">> }

\* A message on the wire: the length header, then the body.
Framed(body) == <<"0">> \o body

\* roundTripSingleResponse(server, req): dial, send req, read the status, read one
\* message, close the connection; every way it can go, with what was exchanged.
roundTripSingleResponse(req) ==
    { [dialed |-> FALSE, err |-> DialErr, resp |-> << >>, trace |-> << >>] }
    \cup { [dialed |-> TRUE, err |-> SendErr(req), resp |-> << >>,
             trace |-> << Ev("send-fail", req), Ev("close", << >>) >>] }
    \cup { [dialed |-> TRUE, err |-> StatusErr("ioerr", req), resp |-> << >>,
             trace |-> << Ev("send", req), Ev("status", <<"ioerr">>), Ev("close", << >>) >>] }
    \cup { [dialed |-> TRUE, err |-> ServerFailErr(req, m), resp |-> << >>,
             trace |-> << Ev("send", req), Ev("status", <<"FAIL">>), Ev("close", << >>) >>]
           : m \in ServerMsgs }
    \cup { [dialed |-> TRUE, err |-> ReadMessageErr, resp |-> << >>,
             trace |-> << Ev("send", req), Ev("status", <<"OKAY">>),
                          Ev("read-fail", << >>), Ev("close", << >>) >>] }
    \cup { [dialed |-> TRUE, err |-> NoErr, resp |-> ReadLengthPrefixed(Framed(body)),
             trace |-> << Ev("send", req), Ev("status", <<"OKAY">>),
                          Ev("message", Framed(body)), Ev("close", << >>) >>]
           : body \in Payloads }

\* The connection a finished round trip leaves behind.
RoundTripConn(r, call) == [open |-> FALSE, closes |-> 1, trace |-> r.trace, call |-> call]

State_propagateAll(err) == FALSE

\* State: strings.Contains(err.Error(), "unauthorized")
State_isUnauthorized(err) == Contains(ErrorText(err), "unauthorized")

\* getAttribute and what Serial, DevicePath, product and State do with its result;
\* DeviceInfo calls Serial and goes on to list the devices when it succeeded.
GetAttribute ==
    /\ pc = "attr"
    /\ dials' = dials + 1
    /\ \E r \in roundTripSingleResponse(attributeReq(descriptor, attrName(op))),
          variant \in ParseVariants :
        LET cs == IF r.dialed THEN Append(conns, RoundTripConn(r, calls)) ELSE conns
            attr == r.resp
        IN /\ pending' = r.err
           /\ op # "State" => variant = "zero-value"
           /\ CASE op = "State" ->
                    IF r.err # NoErr
                    THEN IF State_isUnauthorized(r.err)
                         THEN Return(NoErr, <<op>>, <<"StateUnauthorized">>, 0, cs)
                         ELSE Return(r.err, <<op>>, << >>, 0, cs)
                    ELSE Return(NoErr, <<op>>, <<parseDeviceState(variant, attr)>>, 0, cs)
                [] op = "DeviceInfo" ->
                    IF r.err # NoErr
                    THEN Return(r.err, <<"Serial", "GetDeviceInfo(GetSerial)">>, << >>, 0, cs)
                    ELSE /\ pc' = "di_list"
                         /\ conns' = cs
                         /\ ret' = [ret EXCEPT !.val = attr]
                [] OTHER -> Return(r.err, <<op>>, attr, 0, cs)
    /\ UNCHANGED <<descriptor, op, in, calls, conn>>
    /\ UNCHANGED pushVars

\* DeviceInfo: devices, err := c.deviceListFunc(), then the first entry with the
\* session's serial, or a DeviceNotFound error.
ListDevices ==
    /\ pc = "di_list"
    /\ LET serial == ret.val
           found == findDevice(in.devices, serial)
           e == IF ~in.listOk THEN ListErr
                ELSE IF found # 0 THEN NoErr
                ELSE NewErr("DeviceNotFound",
                            <<"device list doesn't contain serial ">> \o serial)
       IN /\ pending' = e
          /\ ReturnEntry(e, <<IF in.listOk THEN "DeviceInfo" ELSE "DeviceInfo(ListDevices)">>,
                         << >>, 0, conns,
                         IF found # 0 THEN <<in.devices[found]>> ELSE << >>)
    /\ UNCHANGED <<descriptor, op, in, calls, conn, dials>>
    /\ UNCHANGED pushVars

-----------------------------------------------------------------------------
(* Stat, ListDirEntries, OpenRead, OpenWrite *)

HelperErr == NewErr("FileNoExistError", <<"sync request failed">>)

\* What the call leaves of its sync connection when it returns:
\* Stat closes it (defer conn.Close()), the three others have no close of their own.
syncOpRelease(o, cs, id) == IF o = "Stat" THEN deferredConnClose(cs, id) ELSE cs

\* stat / listDirEntries / receiveFile / sendFile on the sync connection.
SyncHelper ==
    /\ pc = "helper"
    /\ op \in SyncOps \ PushOps
    /\ \E ok \in BOOLEAN, helperCloses \in BOOLEAN :
        LET e == IF ok THEN NoErr ELSE HelperErr
            cs1 == Log(conns, conn, IF ok THEN "sync-request" ELSE "sync-request-fail", <<op>>)
            cs2 == IF helperCloses THEN CloseConn(cs1, conn) ELSE cs1
        IN /\ helperCloses => ~ok /\ op # "Stat"
           /\ Return(e, <<op>>, <<op>>, IF op = "Stat" THEN 0 ELSE conn,
                     syncOpRelease(op, cs2, conn))
           /\ pending' = e
    /\ UNCHANGED <<descriptor, op, in, calls, conn, dials>>
    /\ UNCHANGED pushVars

-----------------------------------------------------------------------------
(* PushWithProgress *)

CopyPcs == {"cp_read", "cp_write", "cp_blocked"}

\* The destination stream's Close: every call is counted, the stream and the sync
\* connection under it are closed.
WriterClose(w) == [w EXCEPT !.state = "closed", !.closes = @ + 1]

\* A write on a stream that has been closed reports the peer-closed condition.
ClosedWriteErr == PathError("EPIPE")

\* Failures of a write on an open destination stream.
WriteErrors == {PathError("EPIPE"), PathError("EIO"), NewErr("NetworkError", <<"error sending chunk">>)}

IsBrokenPipe(err) == err # NoErr /\ err[1].type = "PathError" /\ err[1].code = "EPIPE"

copyResult_asIs(err) == err

\* copyWithProgressAndStats: a *os.PathError whose Err is syscall.EPIPE becomes nil.
copyResult(err) == IF IsBrokenPipe(err) THEN NoErr ELSE err

\* size = int(info.Size()): the size stays 0 for standard input; a directory has a
\* positive size.
localSize(local, n) ==
    CASE local = "file" -> n
      [] local = "dir" -> 1
      [] OTHER -> 0

progressEnabled_anySize(showProgress, size, cb) == showProgress /\ cb

\* if showProgress && size > 0 && cb != nil
progressEnabled(showProgress, size, cb) == showProgress /\ size > 0 /\ cb

\* progress.Callback: cb(PushEvent{Current: progress.Add64(0), ...}) reads the counter
\* at the time of the call.
Callback(p) == [p EXCEPT !.notified = TRUE, !.last = p.current]

\* progress.Start(): the bar draws itself once, through Callback.
pbStart == Callback([NoProgress EXCEPT !.on = TRUE])

\* io.MultiWriter(dst, progress): progress.Write adds the bytes dst has taken.
pbWrite(p) == IF p.on THEN [p EXCEPT !.current = @ + 1] ELSE p

\* if progress != nil { progress.Finish() }: the bar draws itself a last time.
pbFinish(p) == IF p.on THEN Callback(p) ELSE p

\* localFile, err = os.Open(localPath); info, err := os.Stat(localPath); defer localFile.Close()
PushOpen ==
    /\ pc = "push_open"
    /\ \E statOk \in BOOLEAN :
        CASE in.local = "stdin" ->
                /\ statOk
                /\ localFile' = "stdin"
                /\ pc' = "dial"
                /\ UNCHANGED <<ret, conns, pending>>
          [] in.local = "missing" ->
                /\ statOk
                /\ localFile' = "none"
                /\ Return(PathError("ENOENT"), <<op>>, << >>, 0, conns)
                /\ pending' = PathError("ENOENT")
          [] OTHER ->
                /\ localFile' = "open"
                /\ IF statOk
                   THEN /\ pc' = "dial"
                        /\ UNCHANGED <<ret, conns, pending>>
                   ELSE /\ Return(PathError("ENOENT"), <<op>>, << >>, 0, conns)
                        /\ pending' = PathError("ENOENT")
    /\ UNCHANGED <<descriptor, op, in, calls, conn, dials>>
    /\ UNCHANGED <<writer, ctx, watcher, srcLeft, copied, copyEnd, cancelInCopy, progress>>

\* PushPath: info, err := os.Stat(localPath); a directory goes to the walking loop, a
\* file is opened (os.Open, defer localFile.Close()).
PushPathStat ==
    /\ pc = "pp_stat"
    /\ \E statOk \in BOOLEAN, openOk \in BOOLEAN :
        IF in.local = "missing" \/ ~statOk \/ (in.local # "dir" /\ ~openOk)
        THEN /\ openOk
             /\ in.local = "missing" => statOk
             /\ Return(PathError("ENOENT"), <<op>>, << >>, 0, conns)
             /\ pending' = PathError("ENOENT")
             /\ UNCHANGED localFile
        ELSE IF in.local = "dir"
             THEN /\ openOk
                  /\ pc' = "pp_walk"
                  /\ UNCHANGED <<ret, conns, pending, localFile>>
             ELSE /\ localFile' = "open"
                  /\ pc' = "dial"
                  /\ UNCHANGED <<ret, conns, pending>>
    /\ UNCHANGED <<descriptor, op, in, calls, conn, dials>>
    /\ UNCHANGED <<writer, ctx, watcher, srcLeft, copied, copyEnd, cancelInCopy, progress>>

\* PushPath on a directory: for { filepath.WalkDir(localPath, ...) } has no exit.
PushPathWalk ==
    /\ pc = "pp_walk"
    /\ pc' = "pp_walk"
    /\ UNCHANGED <<descriptor, op, in, calls, conns, conn, dials, ret, pending>>
    /\ UNCHANGED pushVars

\* writer, err := c.OpenWrite(...): sendFile on the sync connection; defer writer.Close();
\* the watcher goroutine is started when ctx is not nil.
PushOpenWrite ==
    /\ pc = "helper"
    /\ op \in PushOps
    /\ \E ok \in BOOLEAN, helperCloses \in BOOLEAN :
        LET cs1 == Log(conns, conn, IF ok THEN "sync-request" ELSE "sync-request-fail", <<"OpenWrite">>)
            cs2 == IF helperCloses THEN CloseConn(cs1, conn) ELSE cs1
        IN /\ helperCloses => ~ok
           /\ IF ok
              THEN /\ conns' = cs2
                   /\ writer' = [state |-> "open", closes |-> 0, conn |-> conn]
                   /\ watcher' = IF ctx # "nil" THEN "waiting" ELSE "none"
                   /\ pc' = "cp_read"
                   /\ progress' = IF op = "PushWithProgress" /\
                                     progressEnabled(in.showProgress,
                                                     localSize(in.local, in.n), in.cb)
                                  THEN pbStart
                                  ELSE NoProgress
                   /\ UNCHANGED <<ret, pending, localFile>>
              ELSE /\ Return(HelperErr, EntryWraps, << >>, 0, cs2)
                   /\ pending' = HelperErr
                   /\ localFile' = "closed"
                   /\ UNCHANGED <<writer, watcher, progress>>
    /\ UNCHANGED <<descriptor, op, in, calls, conn, dials>>
    /\ UNCHANGED <<ctx, srcLeft, copied, copyEnd, cancelInCopy>>

\* The cancellation signal fires (the caller cancels ctx).
Cancel ==
    /\ ctx = "live"
    /\ ctx' = "cancelled"
    /\ cancelInCopy' = (op = "PushWithProgress" /\ pc \in CopyPcs)
    /\ UNCHANGED <<descriptor, op, pc, in, calls, conns, conn, dials, ret, localFile,
                   writer, watcher, srcLeft, copied, copyEnd, pending, progress>>

\* go func() { select { case <-ctx.Done(): writer.Close() } }()
WatcherClose ==
    /\ watcher = "waiting"
    /\ ctx = "cancelled"
    /\ watcher' = "done"
    /\ writer' = WriterClose(writer)
    /\ conns' = CloseConn(conns, writer.conn)
    /\ UNCHANGED <<descriptor, op, pc, in, calls, conn, dials, ret, localFile,
                   ctx, srcLeft, copied, copyEnd, pending, cancelInCopy, progress>>

\* The bar's refresher goroutine redraws the bar while the copy runs.
ProgressTick ==
    /\ pc \in CopyPcs
    /\ progress.on
    /\ progress' = Callback(progress)
    /\ UNCHANGED <<descriptor, op, pc, in, calls, conns, conn, dials, ret, localFile,
                   writer, ctx, watcher, srcLeft, copied, copyEnd, pending, cancelInCopy>>

\* copyWithProgressAndStats returns and PushWithProgress returns after it: the two
\* deferred closes run (writer.Close(), then localFile.Close()), also on a panic.
PushReturn(e, how) ==
    /\ copyEnd' = how
    /\ pending' = e
    /\ Return(copyResult(e), <<op>>, << >>, 0, CloseConn(conns, writer.conn))
    /\ writer' = WriterClose(writer)
    /\ localFile' = "closed"
    /\ progress' = pbFinish(progress)

\* io.Copy: src.Read
CopyRead ==
    /\ pc = "cp_read"
    /\ \E ok \in BOOLEAN :
        IF in.local = "dir" \/ ~ok
        THEN PushReturn(PathError(IF in.local = "dir" THEN "EISDIR" ELSE "EIO"), "readerr")
             /\ UNCHANGED <<srcLeft, copied>>
        ELSE IF srcLeft = 0
             THEN PushReturn(NoErr, "eof") /\ UNCHANGED <<srcLeft, copied>>
             ELSE /\ pc' = "cp_write"
                  /\ srcLeft' = srcLeft - 1
                  /\ UNCHANGED <<ret, conns, pending, writer, localFile, copied, copyEnd,
                                 progress>>
    /\ UNCHANGED <<descriptor, op, in, calls, conn, dials, ctx, watcher, cancelInCopy>>

\* io.Copy: dst.Write
CopyWrite ==
    /\ pc = "cp_write"
    /\ IF writer.state = "closed"
       THEN PushReturn(ClosedWriteErr, "closed") /\ UNCHANGED copied
       ELSE \/ /\ pc' = "cp_read"
               /\ copied' = copied + 1
               /\ progress' = pbWrite(progress)
               /\ UNCHANGED <<ret, conns, pending, writer, localFile, copyEnd>>
            \/ /\ pc' = "cp_blocked"
               /\ UNCHANGED <<ret, conns, pending, writer, localFile, copyEnd, copied,
                              progress>>
            \/ \E e \in WriteErrors :
                  PushReturn(e, IF IsBrokenPipe(e) THEN "brokenpipe" ELSE "writeerr")
                  /\ UNCHANGED copied
    /\ UNCHANGED <<descriptor, op, in, calls, conn, dials, ctx, watcher, srcLeft, cancelInCopy>>

\* A blocked write completes because the peer took the bytes.
WriteDrained ==
    /\ pc = "cp_blocked"
    /\ writer.state = "open"
    /\ pc' = "cp_read"
    /\ copied' = copied + 1
    /\ progress' = pbWrite(progress)
    /\ UNCHANGED <<descriptor, op, in, calls, conns, conn, dials, ret, localFile, writer,
                   ctx, watcher, srcLeft, copyEnd, pending, cancelInCopy>>

\* A blocked write returns because the stream was closed under it.
WriteUnblocked ==
    /\ pc = "cp_blocked"
    /\ writer.state = "closed"
    /\ PushReturn(ClosedWriteErr, "closed")
    /\ UNCHANGED <<descriptor, op, in, calls, conn, dials, ctx, watcher, srcLeft, copied,
                   cancelInCopy>>

-----------------------------------------------------------------------------

Next ==
    \/ Call
    \/ CallerResumes
    \/ Prepare
    \/ ServerDial
    \/ DialSend
    \/ DialStatus
    \/ SyncSend
    \/ SyncStatus
    \/ ShellSend
    \/ ShellStatus
    \/ ShellRead
    \/ RemountRoundTrip
    \/ GetAttribute
    \/ ListDevices
    \/ SyncHelper
    \/ PushOpen
    \/ PushPathStat
    \/ PushPathWalk
    \/ PushOpenWrite
    \/ Cancel
    \/ WatcherClose
    \/ ProgressTick
    \/ CopyRead
    \/ CopyWrite
    \/ WriteDrained
    \/ WriteUnblocked

Spec == Init /\ [][Next]_vars

\* The copy loop and the watcher goroutine are scheduled; the caller's cancel and the
\* peer's draining of a blocked write are not promised.
LiveSpec ==
    /\ Init
    /\ [][Next]_vars
    /\ WF_vars(CopyRead)
    /\ WF_vars(CopyWrite)
    /\ WF_vars(WriteUnblocked)
    /\ WF_vars(WatcherClose)

-----------------------------------------------------------------------------
(* The pure functions, applied to inputs of their own *)

MaxArgs == 2

\* Argument strings: plain, with whitespace, with a double quote.
ArgStrings == { <<"-", "l">>, <<"-", "a">>, <<"a", " ", "b">>, <<"a", "\"">> }

PureArgLists == UNION { [1..n -> ArgStrings] : n \in 0..MaxArgs }

PureCmds == Cmds \cup { <<" ", "\t">> }

\* Tokens a server may report as the state of a device.
StateStrings == { << >>, <<"offline">>, <<"device">>, <<"unauthorized">>,
                  <<"b", "a", "n", "a", "n", "a">> }

PureInit ==
    /\ descriptor \in Descriptors
    /\ op = "none"
    /\ pc = "pure"
    /\ in \in { [NoIn EXCEPT !.cmd = c, !.args = a] : c \in PureCmds, a \in PureArgLists }
    /\ calls = 0
    /\ conns = << >>
    /\ conn = 0
    /\ dials = 0
    /\ ret = NoRet
    /\ localFile = "none"
    /\ writer = NoWriter
    /\ ctx = "nil"
    /\ watcher = "none"
    /\ srcLeft = 0
    /\ copied = 0
    /\ copyEnd = "none"
    /\ pending = NoErr
    /\ cancelInCopy = FALSE
    /\ progress = NoProgress

\* A pure function f has been applied: its results are in ret.
Applied(f, err, val, panicked) ==
    /\ pc = "pure"
    /\ pc' = "applied"
    /\ op' = f
    /\ ret' = [err |-> err, val |-> val, conn |-> 0, panicked |-> panicked, entry |-> << >>]
    /\ UNCHANGED <<descriptor, calls, conns, conn, dials, pending>>
    /\ UNCHANGED pushVars

\* d.getHostPrefix(); the default branch of the switch panics.
ApplyGetHostPrefix ==
    /\ IF descriptor.descriptorType \in DescriptorTypes
       THEN Applied("getHostPrefix", NoErr, getHostPrefix(descriptor), FALSE)
       ELSE Applied("getHostPrefix", NoErr, << >>, TRUE)
    /\ UNCHANGED in

\* d.getTransportDescriptor(); the default branch of the switch panics.
ApplyGetTransportDescriptor ==
    /\ IF descriptor.descriptorType \in DescriptorTypes
       THEN Applied("getTransportDescriptor", NoErr, getTransportDescriptor(descriptor), FALSE)
       ELSE Applied("getTransportDescriptor", NoErr, << >>, TRUE)
    /\ UNCHANGED in

\* parseDeviceState(str), in either of its definitions.
ApplyParseDeviceState ==
    \E variant \in ParseVariants, str \in StateStrings :
        /\ Applied("parseDeviceState", NoErr, <<parseDeviceState(variant, str)>>, FALSE)
        /\ in' = [NoIn EXCEPT !.cmd = str]

\* prepareCommandLine(cmd, args...)
ApplyPrepareCommandLine ==
    /\ Applied("prepareCommandLine", prepareCommandLineErr(in.cmd, in.args),
               prepareCommandLine(in.cmd, in.args), FALSE)
    /\ UNCHANGED in

PureNext ==
    \/ ApplyGetHostPrefix
    \/ ApplyGetTransportDescriptor
    \/ ApplyParseDeviceState
    \/ ApplyPrepareCommandLine

PureSpec == PureInit /\ [][PureNext]_vars

-----------------------------------------------------------------------------
(* Properties *)

\* The connections dialed by the running call.
CurConns == {i \in DOMAIN conns : conns[i].call = calls}

Done(o) == op = o /\ pc = "done"

Succeeded == ret.err = NoErr /\ ~ret.panicked

HostReq == <<"host:">> \o getTransportDescriptor(descriptor)

OkStatus == Ev("status", <<"OKAY">>)

\* dialDevice opened the connection and then failed on it (the attribute operations
\* do not go through dialDevice).
DialFailed(c) ==
    /\ op \notin AttrOps
    /\ c.trace # << >>
    /\ \/ c.trace[1].e = "send-fail"
       \/ Len(c.trace) >= 2 /\ c.trace[2].e = "status" /\ c.trace[2] # OkStatus

\* dialDevice has returned the running call's connection to its caller.
DialReturnedConn == conn # 0 /\ pc \notin {"dial", "dd_send", "dd_status"}

\* C1: when dialDevice opened a connection and the send of "host:<transport-descriptor>"
\* or the status read failed, that connection has been closed exactly once when the error
\* is returned and no connection reaches the caller; dialDevice returns a connection only
\* after the send succeeded and a success status was read.
C1_DialClosesOnFailure ==
    /\ \A i \in CurConns :
          DialFailed(conns[i]) =>
              /\ conns[i].closes = 1
              /\ ~conns[i].open
              /\ pc = "done"
              /\ ret.err # NoErr
              /\ ret.conn = 0
              /\ conn = 0
    /\ DialReturnedConn =>
          /\ Len(conns[conn].trace) >= 2
          /\ conns[conn].trace[1] = Ev("send", HostReq)
          /\ conns[conn].trace[2] = OkStatus

C1_Witness ==
    \E i \in CurConns :
        /\ Len(conns[i].trace) >= 2
        /\ conns[i].trace[2] = Ev("status", <<"FAIL">>)
        /\ conns[i].closes = 1
        /\ pc = "done"

HasEvent(c, e) == \E k \in 1..Len(c.trace) : c.trace[k].e = e

\* getSyncConn returned an error to the running operation.
GetSyncConnFailed ==
    /\ op \in SyncOps
    /\ pc = "done"
    /\ ret.err # NoErr
    /\ \A i \in CurConns : ~HasEvent(conns[i], "sync-mode")

\* C2: when getSyncConn returns an error, no connection opened during the call is
\* still open.
C2_SyncConnNoLeak ==
    GetSyncConnFailed => \A i \in CurConns : ~conns[i].open

\* The error getSyncConn returns, read off what happened on the wire.
FirstFailure ==
    IF CurConns = {} THEN DialErr
    ELSE LET t == conns[CHOOSE i \in CurConns : TRUE].trace IN
         CASE t[1].e = "send-fail" ->
                 WrapErrf(NewErr("NetworkError", <<"error sending ">> \o HostReq),
                          <<"error connecting to device">>)
           [] t[1].e = "send" /\ t[2] # OkStatus -> StatusErr(t[2].msg[1], HostReq)
           [] t[1].e = "send" /\ t[2] = OkStatus /\ t[3].e = "send-fail" ->
                 NewErr("NetworkError", <<"error sending ", "sync:">>)
           [] OTHER -> StatusErr(t[4].msg[1], <<"sync">>)

\* The error below the wrappers of the public operation.
RECURSIVE Strip(_, _)
Strip(e, n) == IF n = 0 \/ e = NoErr THEN e ELSE Strip(Tail(e), n - 1)

\* C3: a connection is in sync mode only after, in this order on it, the transport
\* request was sent and got a success status, "sync:" was sent and got a success status;
\* when getSyncConn fails the caller gets no connection and the error of the first
\* failing step.
C3_SyncEntryOrder ==
    /\ \A i \in CurConns :
          HasEvent(conns[i], "sync-mode") =>
              /\ Len(conns[i].trace) >= 5
              /\ SubSeq(conns[i].trace, 1, 5) =
                    << Ev("send", HostReq), OkStatus, Ev("send", <<"sync:">>), OkStatus,
                       Ev("sync-mode", << >>) >>
    /\ pc = "helper" => conn \in CurConns /\ HasEvent(conns[conn], "sync-mode")
    /\ GetSyncConnFailed =>
          /\ ret.conn = 0
          /\ Strip(ret.err, Len(EntryWraps)) = FirstFailure

C3_Witness ==
    /\ op = "OpenRead"
    /\ pc = "done"
    /\ Succeeded
    /\ ret.conn \in CurConns
    /\ HasEvent(conns[ret.conn], "sync-mode")

-----------------------------------------------------------------------------
(* The request state machine of RunCommand *)

\* The state of the request, read off the position of the call.
ReqState ==
    CASE pc = "done" -> "Closed"
      [] pc \in {"idle", "prepare"} -> "Idle"
      [] pc \in {"dial", "dd_send", "dd_status", "rc_send"} -> "Connecting"
      [] pc = "rc_status" -> "AwaitingStatus"
      [] pc = "rc_read" -> "ReadingUntilClose"
      [] OTHER -> "Other"

ReqNext(s) ==
    CASE s = "Idle" -> {"Connecting"}
      [] s = "Connecting" -> {"AwaitingStatus"}
      [] s = "AwaitingStatus" -> {"ReadingUntilClose"}
      [] s = "ReadingUntilClose" -> {"Closed"}
      [] OTHER -> {}

\* One step of a RunCommand request: it stays, moves to the next state of the chain,
\* or moves to Closed with an error; it is Closed without an error only from
\* ReadingUntilClose.
ReqStep ==
    (op = "RunCommand" /\ op' = "RunCommand" /\ calls' = calls) =>
        \/ ReqState' = ReqState
        \/ ReqState' \in ReqNext(ReqState) /\ (ReqState' = "Closed" \/ ret'.err = NoErr)
        \/ ReqState' = "Closed" /\ ret'.err # NoErr /\ ret'.conn = 0

\* C4: a RunCommand request moves Idle -> Connecting -> AwaitingStatus ->
\* ReadingUntilClose -> Closed, a failure moves it directly to Closed with an error, and
\* when RunCommand has returned every connection it dialed is closed.
C4_RunCommandStateMachine ==
    /\ [][ReqStep]_vars
    /\ [](Done("RunCommand") =>
            /\ \A i \in CurConns : ~conns[i].open /\ conns[i].closes >= 1
            /\ ret.conn = 0)
    /\ [](op = "RunCommand" => ReqState # "Other")

C4_Witness ==
    /\ Done("RunCommand")
    /\ CurConns # {}
    /\ \A i \in CurConns : ~conns[i].open /\ Len(conns[i].trace) = 5
    /\ ret.err # NoErr

ShellMsg == <<"shell:">> \o prepareCommandLine(in.cmd, in.args)

\* C5: on the connection of a RunCommand the transport request is sent and acknowledged
\* first, then "shell:<prepared command>" is sent once, then the status is read, and the
\* body is read only after a success status; a successful RunCommand returns exactly the
\* bytes the peer delivered before it closed.
C5_RunCommandOrderAndResult ==
    op = "RunCommand" =>
        /\ \A i \in CurConns :
              LET t == conns[i].trace IN
              /\ \A k \in 1..Len(t) :
                    /\ t[k].e = "send" => \/ k = 1 /\ t[k].msg = HostReq
                                          \/ k = 3 /\ t[k].msg = ShellMsg /\ t[2] = OkStatus
                    /\ t[k].e \in {"eof", "read-fail"} =>
                          /\ k = 5
                          /\ t[1] = Ev("send", HostReq)
                          /\ t[2] = OkStatus
                          /\ t[3] = Ev("send", ShellMsg)
                          /\ t[4] = OkStatus
              /\ (pc = "done" /\ Succeeded) =>
                    /\ Len(t) = 6
                    /\ t[5].e = "eof"
                    /\ ret.val = t[5].msg
                    /\ t[6].e = "close"
        /\ (pc = "done" /\ Succeeded) => CurConns # {}

C5_Witness ==
    /\ Done("RunCommand")
    /\ Succeeded
    /\ ret.val = <<"0", "h">>
    /\ in.args # << >>

\* C6: an operation that needs a device connection dials exactly one connection per
\* call, and when it has returned that connection is closed or is the one handed to the
\* caller in the returned value; after an error it is closed.
C6_OneConnPerCall ==
    (pc = "done" /\ op \in {"RunCommand", "Remount", "Stat", "ListDirEntries", "OpenRead", "OpenWrite"}) =>
        /\ dials <= 1
        /\ (op = "RunCommand" /\ prepareCommandLineErr(in.cmd, in.args) # NoErr) \/ dials = 1
        /\ Cardinality(CurConns) <= 1
        /\ \A i \in CurConns :
              \/ ~conns[i].open
              \/ ret.err = NoErr /\ ret.conn = i

-----------------------------------------------------------------------------
(* Push *)

PushDone == Done("PushWithProgress")

BrokenPipe == << [type |-> "PathError", code |-> "EPIPE", msg |-> <<"os">>, details |-> << >>] >>

\* C7: when the write to the destination fails with a broken pipe the copy ends and
\* PushWithProgress returns nil, in every call.
C7_BrokenPipeIsSuccess ==
    (PushDone /\ copyEnd = "brokenpipe") =>
        /\ pending = BrokenPipe
        /\ ret.err = NoErr
        /\ ~ret.panicked

C7_Witness ==
    /\ PushDone
    /\ calls = 2
    /\ copyEnd = "brokenpipe"
    /\ writer.closes = 1
    /\ Succeeded

\* The call failed at the local source or in the copy, and not with a broken pipe.
LocalOrCopyFailure ==
    /\ PushDone
    /\ pending # NoErr
    /\ pending # BrokenPipe
    /\ \/ copyEnd \in {"readerr", "writeerr"}
       \/ pending[1].type = "PathError" /\ pending[1].code = "ENOENT"

\* C8: a failure of the local open or stat, of a source read, or a write failure other
\* than a broken pipe makes PushWithProgress return a wrapped error whose cause is that
\* failure; it does not panic and does not return nil.
C8_PushFailureIsWrapped ==
    LocalOrCopyFailure =>
        /\ ~ret.panicked
        /\ ret.err # NoErr
        /\ ret.err[1].type = "Err"
        /\ Tail(ret.err) = pending

C10_WriterClosedOnce ==
    /\ writer.closes <= 1
    /\ (PushDone /\ writer.state # "none") => writer.closes = 1

\* C11: whenever PushWithProgress has returned, the local file handle it opened is
\* closed, the destination write stream it opened is closed and the sync connection
\* dialed for it is closed.
C11_PushReleasesAll ==
    PushDone =>
        /\ localFile # "open"
        /\ writer.state # "open"
        /\ \A i \in CurConns : ~conns[i].open


\* The copy of the current push has been started.
CopyStarted == op = "PushWithProgress" /\ (pc \in CopyPcs \/ (pc = "done" /\ copyEnd # "none"))

\* The source of the current push has a known positive size.
KnownPositiveSize == (in.local = "file" /\ in.n > 0) \/ in.local = "dir"

\* C12: in a push whose copy has run with progress asked for, an observer supplied and
\* a known positive size, the observer has got at least one event and, once the push
\* has returned, the cumulative value of its last event is the number of chunks the
\* destination took; with size 0 (standard input, empty file), progress not asked for
\* or no observer, the observer gets no event, and a copy that reaches the end of the
\* source has still handed every chunk of it to the destination.
C12_PushProgress ==
    CopyStarted =>
        /\ (in.showProgress /\ in.cb /\ KnownPositiveSize) =>
                /\ progress.notified
                /\ PushDone => progress.last = copied
        /\ ~(in.showProgress /\ in.cb /\ KnownPositiveSize) => ~progress.notified
        /\ (PushDone /\ copyEnd = "eof") => copied = in.n

C12_Witness ==
    /\ PushDone
    /\ copyEnd = "eof"
    /\ in.showProgress /\ in.cb /\ in.local = "file"
    /\ copied = MaxChunks
    /\ progress.notified
    /\ progress.last = MaxChunks


\* The layer of an error that wrapClientError made.
OperationLayer(l) == l.msg # << >> /\ l.msg[1] = "error performing "

\* A call has returned an error to its caller.
ReturnedError == pc = "done" /\ ~ret.panicked /\ ret.err # NoErr

\* C13, as stated: the cause of an error a public operation returns is the internal
\* error that made the operation fail, and the two have the same code.
C13_WrappedExactlyOnce ==
    ReturnedError =>
        /\ Tail(ret.err) = pending
        /\ ret.err[1].code = pending[1].code

\* The Serial call inside DeviceInfo failed.
SerialFailed == op = "DeviceInfo" /\ \A i \in CurConns : ~HasEvent(conns[i], "message")

\* The public operations the error of the current call came up through:
\* PushWithProgress calls OpenWrite, DeviceInfo calls Serial.
ChainLength ==
    IF (op \in PushOps /\ copyEnd = "none") \/ SerialFailed THEN 2 ELSE 1

\* C13, amended: an error a public operation returns has one wrapClientError layer for
\* each public operation of the call chain (two when PushWithProgress fails inside
\* OpenWrite or DeviceInfo inside Serial, one otherwise), under them is the internal
\* error, which is no such layer, and every layer has the internal error's code.
C13_WrappedOncePerOperation ==
    ReturnedError =>
        /\ pending # NoErr
        /\ Strip(ret.err, ChainLength) = pending
        /\ Len(ret.err) = ChainLength + Len(pending)
        /\ \A k \in 1..ChainLength :
              OperationLayer(ret.err[k]) /\ ret.err[k].code = pending[1].code
        /\ ~OperationLayer(pending[1])
        /\ ChainLength = 2 => ret.err[1].msg # ret.err[2].msg

C13_Witness ==
    /\ Done("DeviceInfo")
    /\ SerialFailed
    /\ Len(ret.err) = 3
    /\ ret.err[3].code = "AdbError"
    /\ ret.err[1].code = "AdbError"


\* C14: the message of an error a public operation returns is "error performing
\* <operation> on <device>" with the operation that was called and the string form of
\* the session's descriptor, and the error's detail is the session's descriptor.
C14_MessageNamesOperationAndDevice ==
    ReturnedError =>
        /\ ret.err[1].msg = <<"error performing ">> \o OperationName(op) \o <<" on ">>
                                \o String(descriptor)
        /\ ret.err[1].details = <<descriptor>>


C16_ParseDeviceStateTotal ==
    (pc = "applied" /\ op = "parseDeviceState") =>
        /\ ret.err = NoErr
        /\ ~ret.panicked
        /\ ret.val = CASE in.cmd = << >> -> <<"StateDisconnected">>
                       [] in.cmd = <<"offline">> -> <<"StateOffline">>
                       [] in.cmd = <<"device">> -> <<"StateOnline">>
                       [] OTHER -> <<"StateDisconnected">>


\* The token the server answered the current call's request with.
AnsweredToken == Tail(conns[CHOOSE i \in CurConns : TRUE].trace[3].msg)

\* C17: a State call makes one round trip of its own; when the round trip fails with an
\* error whose message contains "unauthorized" it returns Unauthorized and no error;
\* when it fails otherwise it returns that error wrapped and no state; when it succeeds
\* it returns no error and the classification of the answered token.
C17_StateQuery ==
    Done("State") =>
        /\ dials = 1
        /\ Cardinality(CurConns) <= 1
        /\ ~ret.panicked
        /\ IF pending # NoErr
           THEN IF \E k \in 1..Len(pending[1].msg) : pending[1].msg[k] = "unauthorized"
                THEN ret.err = NoErr /\ ret.val = <<"StateUnauthorized">>
                ELSE ret.err # NoErr /\ Tail(ret.err) = pending /\ ret.val = << >>
           ELSE /\ ret.err = NoErr
                /\ Cardinality(CurConns) = 1
                /\ ret.val \in
                      CASE AnsweredToken = << >> -> { <<"StateDisconnected">> }
                        [] AnsweredToken = <<"offline">> -> { <<"StateOffline">> }
                        [] AnsweredToken = <<"device">> -> { <<"StateOnline">> }
                        [] OTHER -> { <<"StateDisconnected">>, <<"StateInvalid">> }

C17_Witness ==
    /\ Done("State")
    /\ calls = 2
    /\ pending # NoErr
    /\ ret.err = NoErr
    /\ ret.val = <<"StateUnauthorized">>


PrepareApplied == pc = "applied" /\ op = "prepareCommandLine"

\* C18: prepareCommandLine returns an error exactly when cmd is empty or all whitespace
\* (an assertion error) or some argument contains a double quote (a parse error); an
\* argument with whitespace in it does not make it fail.
C18_PrepareFailsIff ==
    PrepareApplied =>
        LET blank == \A i \in 1..Len(in.cmd) : in.cmd[i] \in {" ", "\t", "\n"}
            quoted == \E i \in 1..Len(in.args) :
                          \E j \in 1..Len(in.args[i]) : in.args[i][j] = "\""
        IN /\ ~ret.panicked
           /\ ret.err # NoErr <=> (blank \/ quoted)
           /\ blank => ret.err[1].code = "AssertionError"
           /\ (~blank /\ quoted) => ret.err[1].code = "ParseError"

C18_Witness ==
    /\ PrepareApplied
    /\ in.cmd = <<"l", "s">>
    /\ in.args = << <<"a", " ", "b">> >>
    /\ ret.err = NoErr

RECURSIVE ArgStart(_, _, _)
\* The place in the joined string where the separator before argument i stands.
ArgStart(cmd, args, i) ==
    IF i = 1 THEN Len(cmd) + 1
    ELSE ArgStart(cmd, args, i - 1) + 1 + Len(args[i - 1])

ExpectedAttributeReq ==
    LET t == descriptor.descriptorType
        prefix == CASE t = "DeviceAny" -> <<"host">>
                    [] t = "DeviceUsb" -> <<"host-usb">>
                    [] t = "DeviceLocal" -> <<"host-local">>
                    [] t = "DeviceSerial" -> <<"host-serial:">> \o descriptor.serial
                    [] t = "DeviceTransportId" ->
                           <<"host-transport-id:">> \o descriptor.transportId
        attr == CASE op = "product" -> "get-product"
                  [] op = "Serial" -> "get-serialno"
                  [] op = "DevicePath" -> "get-devpath"
                  [] op = "State" -> "get-state"
    IN prefix \o <<":", attr>>

\* The number of events of the kinds es in a trace.
CountEvents(t, es) == Cardinality({k \in 1..Len(t) : t[k].e \in es})

\* C20: product, Serial, DevicePath and State dial once, send one request,
\* "<host-prefix>:<attr>" for the session's descriptor, read at most one message and
\* close the connection; after a success status and a message, Serial, DevicePath and
\* product return the body of the message as it came and no error.
C20_AttributeFetch ==
    (pc = "done" /\ op \in {"product", "Serial", "DevicePath", "State"}) =>
        /\ dials = 1
        /\ Cardinality(CurConns) <= 1
        /\ \A i \in CurConns :
              LET t == conns[i].trace IN
              /\ ~conns[i].open
              /\ CountEvents(t, {"send", "send-fail"}) = 1
              /\ CountEvents(t, {"message", "read-fail"}) <= 1
              /\ t[1].e \in {"send", "send-fail"}
              /\ t[1].msg = ExpectedAttributeReq
              /\ HasEvent(conns[i], "message") =>
                    /\ t[2] = OkStatus
                    /\ t[3].e = "message"
                    /\ ret.err = NoErr
                    /\ op # "State" => ret.val = Tail(t[3].msg)
                    /\ (op = "Serial" /\ t[3].msg = <<"0", "A", "B", "C", "1", "2", "3">>) =>
                          ret.val = <<"A", "B", "C", "1", "2", "3">>
        /\ ret.err = NoErr => \E i \in CurConns : HasEvent(conns[i], "message") \/ op = "State"

C20_Witness ==
    /\ Done("Serial")
    /\ descriptor = DeviceWithSerial(<<"B", "1">>)
    /\ ret.err = NoErr
    /\ ret.val = <<"A", "B", "C", "1", "2", "3">>
    /\ \E i \in CurConns :
          conns[i].trace[1] = Ev("send", <<"host-serial:", "B", "1", ":", "get-serialno">>)


\* C21: in a push (PushWithProgress, PushPath) of a local directory no remote write
\* stream is opened and no write request is sent for it, the call does not return
\* success, and the call never gets into a loop it cannot leave.
C21_DirectoryNotPushedAsFile ==
    (op \in {"PushWithProgress", "PushPath"} /\ in.local = "dir") =>
        /\ writer.state = "none"
        /\ \A i \in CurConns : ~HasEvent(conns[i], "sync-request")
        /\ pc = "done" => ~Succeeded
        /\ pc # "pp_walk"


\* The command of the current call is one prepareCommandLine rejects: it is empty or
\* all whitespace, or an argument has a double quote in it.
RejectedCommand ==
    \/ \A i \in 1..Len(in.cmd) : in.cmd[i] \in {" ", "\t", "\n"}
    \/ \E i \in 1..Len(in.args) : \E j \in 1..Len(in.args[i]) : in.args[i][j] = "\""

\* C22: a RunCommand call with a rejected command never dials, has no connection and
\* nothing sent at any point of the call, and returns an error.
C22_RejectedCommandNoDial ==
    (op = "RunCommand" /\ RejectedCommand) =>
        /\ dials = 0
        /\ conn = 0
        /\ CurConns = {}
        /\ pc \in {"prepare", "done"}
        /\ pc = "done" => ret.err # NoErr /\ ret.val = << >> /\ ~ret.panicked

C22_Witness ==
    /\ Done("RunCommand")
    /\ in.cmd = <<"l", "s">>
    /\ in.args = << <<"a", "\"">> >>
    /\ calls = 2
    /\ Len(conns) = 1
    /\ ret.err # NoErr


\* C23: a State call that returns no error returns one of Disconnected, Offline, Online
\* and Unauthorized, whatever token the server answered with.
C23_StateNeverInvalid ==
    (Done("State") /\ ret.err = NoErr) =>
        /\ ~ret.panicked
        /\ ret.val \in { <<"StateDisconnected">>, <<"StateOffline">>, <<"StateOnline">>,
                         <<"StateUnauthorized">> }


\* C24: DeviceInfo returns an entry only with a nil error, and then the first entry of
\* the listing whose serial is the one the server reported for the session; when the
\* serial query or the listing fails it returns that error, wrapped, and no entry; when
\* no entry has the serial it returns a DeviceNotFound error and no entry.
C24_DeviceInfoMatch ==
    Done("DeviceInfo") =>
        /\ ~ret.panicked
        /\ ret.err # NoErr => ret.entry = << >>
        /\ IF SerialFailed
           THEN ret.err # NoErr /\ pending # NoErr /\ Strip(ret.err, 2) = pending
           ELSE IF ~in.listOk
           THEN /\ ret.err # NoErr
                /\ Tail(ret.err) = pending
                /\ pending[1].msg = <<"error performing ListDevices">>
           ELSE IF \A k \in 1..Len(in.devices) : in.devices[k].Serial # AnsweredToken
           THEN ret.err # NoErr /\ ret.err[1].code = "DeviceNotFound"
           ELSE /\ ret.err = NoErr
                /\ \E k \in 1..Len(in.devices) :
                      /\ ret.entry = <<in.devices[k]>>
                      /\ in.devices[k].Serial = AnsweredToken
                      /\ \A j \in 1..(k - 1) : in.devices[j].Serial # AnsweredToken

C24_Witness ==
    /\ Done("DeviceInfo")
    /\ Len(in.devices) = 3
    /\ ret.err = NoErr
    /\ ret.entry = << [Serial |-> <<"A", "B", "C", "1", "2", "3">>, Usb |-> "2"] >>

====
